---- MODULE Spec2Model ----
(***************************************************************************)
(* A model of the scholr study-notes client:                               *)
(*   - retryAPI, the retry-with-backoff helper (services/geminiService.ts) *)
(*   - the bookmark store over localStorage (services/userService.ts)      *)
(*   - AITutor.handleSend, the streamed tutor turn (components/AITutor)    *)
(*   - App, the view-state machine and its asynchronous completions        *)
(* Each part has its own specification over its own variables; the other   *)
(* variables keep their initial values.                                    *)
(***************************************************************************)
EXTENDS Integers, Sequences, FiniteSets, TLC

VARIABLES
    \* ---- retryAPI: one call of the helper and what the caller observes
    rPc,        \* "idle" | "call" (operation pending) | "wait" (timer pending) | "returned" | "thrown"
    rRetries,   \* the parameter `retries` of the active recursion level
    rDelay,     \* the parameter `delay` of the active recursion level
    rMax,       \* `retries` as passed by the caller (maxRetries)
    rInit,      \* `delay` as passed by the caller (initialDelay)
    rCalls,     \* how many times operation() has been invoked
    rLog,       \* the outcome of every settled invocation, in order
    rWaits,     \* the delay handed to setTimeout before each retry, in order
    rResult,    \* what retryAPI's promise settled with
    \* ---- the bookmark store (services/userService.ts)
    lsBookmarks,  \* localStorage['scholr_bookmarks']: None, or Some(the JSON value stored)
    now,          \* Date.now()
    bmReturn,     \* what the last addBookmark call returned: None (it threw, or no call yet) or Some(bookmark)
    \* ---- AITutor (components/AITutor.tsx)
    messages,     \* useState<ChatMessage[]>: the transcript
    input,        \* useState(''): the text field
    loading,      \* useState(false)
    chatSession,  \* chatSessionRef.current is set
    requests,     \* the messages handed to chat.sendMessageStream, in order
    turns,        \* the handleSend invocations that passed the guard, in call order: the locals
                  \* of each, the rest of its stream, and where its messages were appended
    lastSend,     \* the last handleSend call: a bit flipped by every call, and its textToSend
    \* ---- App (App.tsx): the view-state machine
    viewState,    \* useState<ViewState>
    appLoading,   \* useState(false): loading
    appError,     \* useState<string | null>(null): error
    topicInput,   \* useState(''): topicInput
    user,         \* useState<User | null>(null): user
    fetches,      \* the getChapters calls in flight, oldest first; `latest` marks the newest call
    generations,  \* the generateNotes calls in flight, oldest first; `superseded` marks the calls
                  \* made before a later home / library / bookmark / logout navigation
    lastSelect,   \* Some(the subject selection and the outcome of its fetch) while selecting the
                  \* subject is the user's last navigation, else None
    \* ---- the guest session (services/userService.ts)
    lsGuest,      \* localStorage['scholr_guest_session']: None, or Some(the JSON text stored)
    authNow,      \* Date.now(), as a position in Clock
    loginReturn,  \* Some(the User the last loginUser('anonymous') resolved with); None before
                  \* the first login and after a logoutUser
    delivered,    \* the arguments the callback of the last subscribeToAuthChanges call got, in order
    authLog,      \* the calls made so far, in order
    \* ---- replaceSuperscripts (services/geminiService.ts)
    rsText,       \* the argument `text`
    rsOnce,       \* None, or Some(replaceSuperscripts(text))
    rsTwice       \* None, or Some(replaceSuperscripts(replaceSuperscripts(text)))

retryVars == <<rPc, rRetries, rDelay, rMax, rInit, rCalls, rLog, rWaits, rResult>>

bmVars == <<lsBookmarks, now, bmReturn>>

tutorVars == <<messages, input, loading, chatSession, requests, turns, lastSend>>

appVars == <<viewState, appLoading, appError, topicInput, user, fetches, generations, lastSelect>>

authVars == <<lsGuest, authNow, loginReturn, delivered, authLog>>

rsVars == <<rsText, rsOnce, rsTwice>>

vars == <<retryVars, bmVars, tutorVars, appVars, authVars, rsVars>>

\* What the actions of one part leave alone: the variables of the other parts.
RetryFrame == UNCHANGED <<bmVars, tutorVars, appVars, authVars, rsVars>>
BookmarksFrame == UNCHANGED <<retryVars, tutorVars, appVars, authVars, rsVars>>
TutorFrame == UNCHANGED <<retryVars, bmVars, appVars, authVars, rsVars>>
AppFrame == UNCHANGED <<retryVars, bmVars, tutorVars, authVars, rsVars>>
AuthFrame == UNCHANGED <<retryVars, bmVars, tutorVars, appVars, rsVars>>
RewriteFrame == UNCHANGED <<retryVars, bmVars, tutorVars, appVars, authVars>>

(***************************************************************************)
(* JavaScript values                                                       *)
(***************************************************************************)
\* An optional value: <<>> is undefined, <<x>> is x.
None == <<>>
Some(x) == <<x>>

\* A string is modelled as a sequence of tokens; String.prototype.includes is
\* then the search for the marker among them.
Includes(str, marker) == \E i \in 1..Len(str) : str[i] = marker

(***************************************************************************)
(* retryAPI                                                                *)
(***************************************************************************)
\* Bound of the model: the largest `retries` a caller passes.
MaxRetries == 3

\* The default parameters: retries = 3, delay = 2000.
DefaultRetries == 3
DefaultDelay == 2000

\* The delays a caller passes.
Delays == {DefaultDelay, 500}

\* Failures the wrapped operation rejects with: an error object with an optional
\* numeric status and an optional message.
Err(status, message) == [status |-> status, message |-> message]

\* The SyntaxError JSON.parse throws.
ParseError == Err(None, Some(<<"Unexpected", "token">>))

Errors ==
    { Err(Some(429), None),
      Err(Some(503), Some(<<"Service", "Unavailable">>)),
      Err(Some(500), Some(<<"Internal", "error">>)),
      Err(Some(400), None),
      Err(None, Some(<<"got", "429", "Too", "Many", "Requests">>)),
      Err(None, Some(<<"RESOURCE_EXHAUSTED">>)),
      Err(None, Some(<<"exceeded", "quota">>)),
      Err(None, Some(<<"Empty", "response", "from", "AI">>)),
      ParseError,
      Err(None, None) }

Values == {"v1", "v2"}

NoErr == Err(None, None)
Success(v) == [ok |-> TRUE, value |-> v, err |-> NoErr]
Failure(e) == [ok |-> FALSE, value |-> None, err |-> e]

\* error.message?.includes(marker)
MessageIncludes(e, marker) == e.message # None /\ Includes(e.message[1], marker)

IsTransientAlsoServerErrors(e) ==
    \/ e.status = Some(429)
    \/ e.status = Some(503)
    \/ e.status = Some(500)
    \/ MessageIncludes(e, "429")
    \/ MessageIncludes(e, "RESOURCE_EXHAUSTED")
    \/ MessageIncludes(e, "quota")

IsTransientStatusOnly(e) == e.status = Some(429) \/ e.status = Some(503)

\* The failures retryAPI retries (the parenthesised condition of its catch).
IsTransient(e) ==
    \/ e.status = Some(429)
    \/ e.status = Some(503)
    \/ MessageIncludes(e, "429")
    \/ MessageIncludes(e, "RESOURCE_EXHAUSTED")
    \/ MessageIncludes(e, "quota")

ShouldRetryOffByOne(retries, e) == retries > 1 /\ IsTransient(e)

\* if (retries > 0 && (...))
ShouldRetry(retries, e) == retries > 0 /\ IsTransient(e)

NextDelayLinear(delay) == delay + 2000

\* delay * 2, the `delay` of the recursive call
NextDelay(delay) == delay * 2

InitRetry ==
    /\ rPc = "idle"
    /\ rRetries = 0
    /\ rDelay = 0
    /\ rMax = 0
    /\ rInit = 0
    /\ rCalls = 0
    /\ rLog = <<>>
    /\ rWaits = <<>>
    /\ rResult = Success(None)

\* A caller calls retryAPI(operation, retries, delay); the body runs to its
\* first suspension, `await operation()`.
RetryAPI(retries, delay) ==
    /\ RetryFrame
    /\ rPc = "idle"
    /\ rPc' = "call"
    /\ rRetries' = retries
    /\ rDelay' = delay
    /\ rMax' = retries
    /\ rInit' = delay
    /\ rCalls' = 1
    /\ UNCHANGED <<rLog, rWaits, rResult>>

\* retryAPI(operation): both parameters take their defaults.
RetryAPIDefault == RetryAPI(DefaultRetries, DefaultDelay)

RetryAPIExplicit == \E n \in 0..MaxRetries, d \in Delays : RetryAPI(n, d)

\* operation() resolves: `return await operation()`.
OperationResolves ==
    /\ RetryFrame
    /\ rPc = "call"
    /\ \E v \in Values :
        /\ rLog' = Append(rLog, Success(v))
        /\ rResult' = Success(v)
    /\ rPc' = "returned"
    /\ UNCHANGED <<rRetries, rDelay, rMax, rInit, rCalls, rWaits>>

\* operation() rejects: the catch block either arms the timer or rethrows.
OperationRejects ==
    /\ RetryFrame
    /\ rPc = "call"
    /\ \E e \in Errors :
        /\ rLog' = Append(rLog, Failure(e))
        /\ IF ShouldRetry(rRetries, e)
              THEN /\ rPc' = "wait"
                   /\ rWaits' = Append(rWaits, rDelay)
                   /\ UNCHANGED rResult
              ELSE /\ rPc' = "thrown"
                   /\ rResult' = Failure(e)
                   /\ UNCHANGED rWaits
    /\ UNCHANGED <<rRetries, rDelay, rMax, rInit, rCalls>>

\* The timer fires: `return retryAPI(operation, retries - 1, delay * 2)`, whose
\* body runs to `await operation()`.
TimerFires ==
    /\ RetryFrame
    /\ rPc = "wait"
    /\ rPc' = "call"
    /\ rRetries' = rRetries - 1
    /\ rDelay' = NextDelay(rDelay)
    /\ rCalls' = rCalls + 1
    /\ UNCHANGED <<rMax, rInit, rLog, rWaits, rResult>>

NextRetry ==
    \/ RetryAPIDefault
    \/ RetryAPIExplicit
    \/ OperationResolves
    \/ OperationRejects
    \/ TimerFires


(***************************************************************************)
(* getChapters: retryAPI around one generateContent request                *)
(***************************************************************************)
\* The categories of a well-formed answer.
SomeCategories == << [category |-> "Chapters", chapters |-> << <<"Chapter 1">> >>] >>

\* What generateContent resolves with: no text, text that is not JSON, JSON
\* without a categories member, JSON with categories.
ChapterResponses ==
    { [text |-> FALSE, json |-> FALSE, categories |-> None],
      [text |-> TRUE,  json |-> FALSE, categories |-> None],
      [text |-> TRUE,  json |-> TRUE,  categories |-> None],
      [text |-> TRUE,  json |-> TRUE,  categories |-> Some(<<>>)],
      [text |-> TRUE,  json |-> TRUE,  categories |-> Some(SomeCategories)] }

\* The body of the operation after `await ai.models.generateContent(...)`:
\* what the operation settles with.
ChaptersOperation(response) ==
    IF response.text
       THEN IF response.json
               THEN [ok |-> TRUE, err |-> NoErr,
                     value |-> IF response.categories # None /\ response.categories[1] # <<>>
                                  THEN response.categories[1] ELSE <<>>]
               ELSE [ok |-> FALSE, err |-> ParseError, value |-> <<>>]
       ELSE [ok |-> TRUE, err |-> NoErr, value |-> <<>>]

\* getChapters(classLevel, subject): `return retryAPI(async () => ...)`.
GetChapters == RetryAPIDefault

\* generateContent resolves and the operation runs to its end; a rejection of
\* the operation takes the catch block of retryAPI.
ChaptersRespond ==
    /\ RetryFrame
    /\ rPc = "call"
    /\ \E response \in ChapterResponses :
          LET outcome == ChaptersOperation(response)
          IN  /\ rLog' = Append(rLog, outcome)
              /\ IF outcome.ok
                    THEN /\ rPc' = "returned"
                         /\ rResult' = outcome
                         /\ UNCHANGED rWaits
                    ELSE IF ShouldRetry(rRetries, outcome.err)
                            THEN /\ rPc' = "wait"
                                 /\ rWaits' = Append(rWaits, rDelay)
                                 /\ UNCHANGED rResult
                            ELSE /\ rPc' = "thrown"
                                 /\ rResult' = outcome
                                 /\ UNCHANGED rWaits
    /\ UNCHANGED <<rRetries, rDelay, rMax, rInit, rCalls>>

NextChapters ==
    \/ GetChapters
    \/ ChaptersRespond
    \/ OperationRejects
    \/ TimerFires


(***************************************************************************)
(* analyzeSyllabus: retryAPI(..., 3, 2000) with a catch on its promise     *)
(***************************************************************************)
\* What generateContent resolves with: response.text undefined, empty, or the
\* analysis.
SyllabusResponses ==
    { [text |-> None], [text |-> Some(<<>>)], [text |-> Some(<<"Study", "plan">>)] }

\* new Error("No analysis generated")
EmptyAnalysis == Err(None, Some(<<"No", "analysis", "generated">>))

\* new Error("High traffic. We are automatically retrying, ...")
HighTraffic == Err(None, Some(<<"High", "traffic.", "We", "are", "automatically", "retrying">>))

\* The body of the operation after `await ai.models.generateContent(...)`.
SyllabusOperation(response) ==
    IF response.text = None \/ response.text[1] = <<>>
       THEN [ok |-> FALSE, err |-> EmptyAnalysis, value |-> <<>>]
       ELSE [ok |-> TRUE, err |-> NoErr, value |-> response.text[1]]

\* The handler of .catch: what analyzeSyllabus rejects with when retryAPI
\* rejects with `error`.
AnalyzeSyllabusCatch(error) ==
    IF error.status = Some(429) \/ MessageIncludes(error, "429")
       THEN HighTraffic
       ELSE error

\* analyzeSyllabus(fileBase64, mimeType): `return retryAPI(async () => ..., 3, 2000)`.
AnalyzeSyllabus == RetryAPI(3, 2000)

\* The operation settles with `outcome`: retryAPI returns it, waits, or rejects,
\* and a rejection passes through the catch of analyzeSyllabus; rLog keeps what
\* the operation settled with, rResult what analyzeSyllabus settles with.
SyllabusSettles(outcome) ==
    /\ rLog' = Append(rLog, outcome)
    /\ IF outcome.ok
          THEN /\ rPc' = "returned"
               /\ rResult' = outcome
               /\ UNCHANGED rWaits
          ELSE IF ShouldRetry(rRetries, outcome.err)
                  THEN /\ rPc' = "wait"
                       /\ rWaits' = Append(rWaits, rDelay)
                       /\ UNCHANGED rResult
                  ELSE /\ rPc' = "thrown"
                       /\ rResult' = [outcome EXCEPT !.err = AnalyzeSyllabusCatch(outcome.err)]
                       /\ UNCHANGED rWaits
    /\ UNCHANGED <<rRetries, rDelay, rMax, rInit, rCalls>>

\* generateContent resolves and the operation runs to its end.
SyllabusRespond ==
    /\ RetryFrame
    /\ rPc = "call"
    /\ \E response \in SyllabusResponses : SyllabusSettles(SyllabusOperation(response))

\* generateContent rejects.
SyllabusRequestFails ==
    /\ RetryFrame
    /\ rPc = "call"
    /\ \E e \in Errors : SyllabusSettles([ok |-> FALSE, err |-> e, value |-> <<>>])

NextSyllabus ==
    \/ AnalyzeSyllabus
    \/ SyllabusRespond
    \/ SyllabusRequestFails
    \/ TimerFires


(***************************************************************************)
(* The bookmark store: getBookmarks, addBookmark, removeBookmark           *)
(***************************************************************************)
\* Bounds of the model: the bookmarks stored over all users, and the clock.
MaxStored == 2
MaxTime == 1

UserIds == {"guest-000001", "guest-000002"}

\* StudyNote, with the fields the store reads.
Notes ==
    { [topic |-> "Photosynthesis", subject |-> "Science", classLevel |-> "Class 10",
       sections |-> << [heading |-> "Light reaction"] >>],
      [topic |-> "Light", subject |-> "Science", classLevel |-> "Class 10",
       sections |-> << >>] }

BookmarkTypes == {"topic", "section"}

\* sectionIndex?: number
SectionIndexes == {None, Some(0)}

\* JSON.stringify of a Bookmark: a property whose value is undefined is left
\* out, every other property is written.
StringifyBookmark(b) ==
    [k \in (IF b.sectionIndex = None THEN DOMAIN b \ {"sectionIndex"} ELSE DOMAIN b) |->
        IF k = "sectionIndex" THEN b.sectionIndex[1] ELSE b[k]]

\* JSON.parse of a stored Bookmark: reading a property that was left out
\* yields undefined.
ParseBookmark(j) ==
    [k \in DOMAIN j \cup {"sectionIndex"} |->
        IF k = "sectionIndex"
           THEN (IF "sectionIndex" \in DOMAIN j THEN Some(j.sectionIndex) ELSE None)
           ELSE j[k]]

\* JSON.stringify(allBookmarks)
Stringify(all) == [u \in DOMAIN all |-> [i \in 1..Len(all[u]) |-> StringifyBookmark(all[u][i])]]

\* JSON.parse(localStorage.getItem(STORAGE_KEY_BOOKMARKS) || '{}')
ParseStored(item) ==
    IF item = None
       THEN [u \in {} |-> <<>>]
       ELSE [u \in DOMAIN item[1] |-> [i \in 1..Len(item[1][u]) |-> ParseBookmark(item[1][u][i])]]

\* allBookmarks[userId] || []
ListOf(all, userId) == IF userId \in DOMAIN all THEN all[userId] ELSE <<>>

\* getBookmarks(userId)
GetBookmarks(userId) == ListOf(ParseStored(lsBookmarks), userId)

\* `bm_${Date.now()}`
BookmarkId(t) == <<"bm_", t>>

\* noteData.sections[sectionIndex!].heading throws a TypeError when there is no
\* such section (sectionIndex undefined or out of range).
AddThrows(noteData, type, sectionIndex) ==
    /\ type # "topic"
    /\ \/ sectionIndex = None
       \/ sectionIndex[1] + 1 > Len(noteData.sections)

\* The newBookmark object addBookmark builds.
NewBookmark(userId, noteData, type, sectionIndex) ==
    [ id |-> BookmarkId(now),
      userId |-> userId,
      type |-> type,
      title |-> IF type = "topic" THEN <<noteData.topic>>
                ELSE <<noteData.sections[sectionIndex[1] + 1].heading>>,
      subtitle |-> IF type = "topic" THEN <<noteData.classLevel, "-", noteData.subject>>
                   ELSE <<"From:", noteData.topic>>,
      timestamp |-> now,
      noteData |-> noteData,
      sectionIndex |-> sectionIndex ]

\* A store that recognises a bookmark by its id instead of by what it marks.
ExistsById(userBookmarks, noteData, type, sectionIndex) ==
    \E i \in 1..Len(userBookmarks) : userBookmarks[i].id = BookmarkId(now)

\* userBookmarks.some(b => b.type === type && b.noteData.topic === noteData.topic
\*                         && b.sectionIndex === sectionIndex)
Exists(userBookmarks, noteData, type, sectionIndex) ==
    \E i \in 1..Len(userBookmarks) :
        /\ userBookmarks[i].type = type
        /\ userBookmarks[i].noteData.topic = noteData.topic
        /\ userBookmarks[i].sectionIndex = sectionIndex

\* A store that keeps one list for all users.
WithListForAll(all, userId, list) == [u \in DOMAIN all \cup {userId} |-> list]

\* allBookmarks[userId] = list
WithList(all, userId, list) ==
    [u \in DOMAIN all \cup {userId} |-> IF u = userId THEN list ELSE all[u]]

\* A filter that drops the first entry, whatever its id.
FilterFirst(list, bookmarkId) == IF list = <<>> THEN <<>> ELSE Tail(list)

\* list.filter(b => b.id !== bookmarkId)
Filter(list, bookmarkId) ==
    LET F[i \in 0..Len(list)] ==
            IF i = 0 THEN <<>>
            ELSE IF list[i].id = bookmarkId THEN F[i - 1]
            ELSE Append(F[i - 1], list[i])
    IN  F[Len(list)]

\* The number of bookmarks in storage, over all users.
RECURSIVE SumLen(_, _)
SumLen(all, users) ==
    IF users = {} THEN 0
    ELSE LET u == CHOOSE x \in users : TRUE
         IN  Len(all[u]) + SumLen(all, users \ {u})

StoredCount == LET all == ParseStored(lsBookmarks) IN SumLen(all, DOMAIN all)

InitBookmarks ==
    /\ lsBookmarks = None
    /\ now = 0
    /\ bmReturn = None

\* The clock advances between calls.
Tick ==
    /\ BookmarksFrame
    /\ now < MaxTime
    /\ now' = now + 1
    /\ UNCHANGED <<lsBookmarks, bmReturn>>

\* addBookmark(userId, noteData, type, sectionIndex)
AddBookmark(userId, noteData, type, sectionIndex) ==
    LET allBookmarks == ParseStored(lsBookmarks)
        userBookmarks == ListOf(allBookmarks, userId)
    IN  IF AddThrows(noteData, type, sectionIndex)
           THEN /\ bmReturn' = None
                /\ UNCHANGED <<lsBookmarks, now>>
           ELSE LET newBookmark == NewBookmark(userId, noteData, type, sectionIndex)
                IN  /\ IF ~Exists(userBookmarks, noteData, type, sectionIndex)
                          THEN /\ StoredCount < MaxStored
                               /\ lsBookmarks' =
                                    Some(Stringify(WithList(allBookmarks, userId,
                                                            <<newBookmark>> \o userBookmarks)))
                          ELSE UNCHANGED lsBookmarks
                    /\ bmReturn' = Some(newBookmark)
                    /\ UNCHANGED now

\* What removeBookmark(userId, bookmarkId) leaves in storage: the item is
\* written only when the user has a list.
StorageAfterRemove(userId, bookmarkId) ==
    LET allBookmarks == ParseStored(lsBookmarks)
    IN  IF userId \in DOMAIN allBookmarks
           THEN Some(Stringify(WithList(allBookmarks, userId,
                                        Filter(allBookmarks[userId], bookmarkId))))
           ELSE lsBookmarks

\* removeBookmark(userId, bookmarkId)
RemoveBookmark(userId, bookmarkId) ==
    /\ lsBookmarks' = StorageAfterRemove(userId, bookmarkId)
    /\ UNCHANGED <<now, bmReturn>>

AddBookmarkCall ==
    /\ BookmarksFrame
    /\ \E u \in UserIds, n \in Notes, t \in BookmarkTypes, x \in SectionIndexes :
          AddBookmark(u, n, t, x)

RemoveBookmarkCall ==
    /\ BookmarksFrame
    /\ \E u \in UserIds, t \in 0..MaxTime : RemoveBookmark(u, BookmarkId(t))

NextBookmarks ==
    \/ Tick
    \/ AddBookmarkCall
    \/ RemoveBookmarkCall


(***************************************************************************)
(* AITutor: the mount effect and handleSend                                *)
(***************************************************************************)
\* Bound of the model: the turns that pass handleSend's guard.
MaxTurns == 2

\* Text is a sequence of characters (the fixed messages are one token each).
Whitespace == {" ", "\t", "\n"}

\* What the user types into the field, a text handed over by a caller, and the
\* fragments a response stream yields, in order (chunk.text may be empty).
Texts == { <<>>, <<" ">>, <<"a", " ">> }
Overrides == { None, Some(<<"b">>) }
Streams == { <<>>, << <<"x">>, <<>>, <<"y">> >>, << <<"y">>, <<"x">> >> }

Greeting == <<"Hello! I'm your AI Tutor. ...">>
Apology == <<"I'm sorry, I encountered an error. Please try again.">>

Message(role, text) == [role |-> role, text |-> text]

RECURSIVE TrimStart(_)
TrimStart(str) ==
    IF str # <<>> /\ Head(str) \in Whitespace THEN TrimStart(Tail(str)) ELSE str

RECURSIVE TrimEnd(_)
TrimEnd(str) ==
    IF str # <<>> /\ str[Len(str)] \in Whitespace
       THEN TrimEnd(SubSeq(str, 1, Len(str) - 1))
       ELSE str

TrimNothing(str) == str

\* String.prototype.trim
Trim(str) == TrimEnd(TrimStart(str))

\* initialQuery.substring(0, 50)
Substring50(str) == SubSeq(str, 1, IF Len(str) < 50 THEN Len(str) ELSE 50)

Overwrite(fullResponse, text) == text

\* fullResponse += c.text
Accumulate(fullResponse, text) == fullResponse \o text

\* updated[updated.length - 1].text = fullResponse
SetLastText(prev, text) == [prev EXCEPT ![Len(prev)].text = text]

InitTutor ==
    /\ messages = <<>>
    /\ input = <<>>
    /\ loading = FALSE
    /\ chatSession = FALSE
    /\ requests = <<>>
    /\ turns = <<>>
    /\ lastSend = [flip |-> FALSE, text |-> <<>>]

\* The mount effect: the chat session is created and the greeting is set; a
\* non-empty initialQuery is put into the field and echoed.
TutorMount ==
    /\ TutorFrame
    /\ ~chatSession
    /\ chatSession' = TRUE
    /\ \E initialQuery \in Overrides :
          IF initialQuery # None /\ initialQuery[1] # <<>>
             THEN /\ input' = initialQuery[1]
                  /\ messages' = << Message("model",
                          <<"I see you selected some text: ">> \o Substring50(initialQuery[1])) >>
             ELSE /\ messages' = << Message("model", Greeting) >>
                  /\ UNCHANGED input
    /\ UNCHANGED <<loading, requests, turns, lastSend>>

\* onChange of the text field: setInput(e.target.value)
ChangeInput ==
    /\ TutorFrame
    /\ \E text \in Texts : input' = text
    /\ UNCHANGED <<messages, loading, chatSession, requests, turns, lastSend>>

\* handleSend(textOverride), up to its first suspension at
\* `await chatSessionRef.current.sendMessageStream(...)`.
HandleSend(textOverride) ==
    LET textToSend == IF textOverride # None /\ textOverride[1] # <<>>
                         THEN textOverride[1] ELSE input
    IN  /\ lastSend' = [flip |-> ~lastSend.flip, text |-> textToSend]
        /\ IF Trim(textToSend) = <<>> \/ ~chatSession
              THEN UNCHANGED <<messages, input, loading, chatSession, requests, turns>>
              ELSE /\ Len(turns) < MaxTurns
                   /\ messages' = Append(messages, Message("user", textToSend))
                   /\ input' = <<>>
                   /\ loading' = TRUE
                   /\ requests' = Append(requests, textToSend)
                   /\ turns' = Append(turns,
                         [ pc |-> "sending", text |-> textToSend, fullResponse |-> <<>>,
                           stream |-> <<>>, user |-> Len(messages) + 1,
                           placeholder |-> 0, fragments |-> <<>>, failed |-> FALSE ])
                   /\ UNCHANGED chatSession

\* handleSend called while no turn is loading: the submit button, its only
\* caller, is disabled while `loading`.
SendWhenIdle ==
    /\ TutorFrame
    /\ ~loading
    /\ \E textOverride \in Overrides : HandleSend(textOverride)

\* handleSend called at any time: the function itself has no such guard.
SendAnytime ==
    /\ TutorFrame
    /\ \E textOverride \in Overrides : HandleSend(textOverride)

\* sendMessageStream resolves: fullResponse = '' and the placeholder is appended.
StreamOpens(t) ==
    /\ turns[t].pc = "sending"
    /\ messages' = Append(messages, Message("model", <<>>))
    /\ \E stream \in Streams :
          turns' = [turns EXCEPT ![t].pc = "streaming", ![t].stream = stream,
                                 ![t].placeholder = Len(messages) + 1]
    /\ UNCHANGED <<input, loading, chatSession, requests, lastSend>>

\* sendMessageStream rejects: catch appends the apology, finally clears loading.
SendRejects(t) ==
    /\ turns[t].pc = "sending"
    /\ messages' = Append(messages, Message("model", Apology))
    /\ loading' = FALSE
    /\ turns' = [turns EXCEPT ![t].pc = "done", ![t].failed = TRUE]
    /\ UNCHANGED <<input, chatSession, requests, lastSend>>

\* One iteration of `for await (const chunk of resultStream)`.
ChunkArrives(t) ==
    /\ turns[t].pc = "streaming"
    /\ turns[t].stream # <<>>
    /\ LET text == Head(turns[t].stream)
           fullResponse == Accumulate(turns[t].fullResponse, text)
       IN  IF text # <<>>
              THEN /\ messages' = SetLastText(messages, fullResponse)
                   /\ turns' = [turns EXCEPT ![t].fullResponse = fullResponse,
                                             ![t].stream = Tail(@),
                                             ![t].fragments = Append(@, text)]
              ELSE /\ turns' = [turns EXCEPT ![t].stream = Tail(@),
                                             ![t].fragments = Append(@, text)]
                   /\ UNCHANGED messages
    /\ UNCHANGED <<input, loading, chatSession, requests, lastSend>>

\* The stream ends: the loop exits, finally clears loading.
StreamEnds(t) ==
    /\ turns[t].pc = "streaming"
    /\ turns[t].stream = <<>>
    /\ loading' = FALSE
    /\ turns' = [turns EXCEPT ![t].pc = "done"]
    /\ UNCHANGED <<messages, input, chatSession, requests, lastSend>>

\* The stream throws while it is iterated: catch appends the apology, finally
\* clears loading.
StreamThrows(t) ==
    /\ turns[t].pc = "streaming"
    /\ messages' = Append(messages, Message("model", Apology))
    /\ loading' = FALSE
    /\ turns' = [turns EXCEPT ![t].pc = "done", ![t].failed = TRUE]
    /\ UNCHANGED <<input, chatSession, requests, lastSend>>

StreamOpensStep == TutorFrame /\ \E t \in 1..Len(turns) : StreamOpens(t)
SendRejectsStep == TutorFrame /\ \E t \in 1..Len(turns) : SendRejects(t)
ChunkArrivesStep == TutorFrame /\ \E t \in 1..Len(turns) : ChunkArrives(t)
StreamEndsStep == TutorFrame /\ \E t \in 1..Len(turns) : StreamEnds(t)
StreamThrowsStep == TutorFrame /\ \E t \in 1..Len(turns) : StreamThrows(t)

TutorCompletions ==
    \/ StreamOpensStep
    \/ SendRejectsStep
    \/ ChunkArrivesStep
    \/ StreamEndsStep
    \/ StreamThrowsStep

\* Turns issued one at a time.
NextTutor ==
    \/ TutorMount
    \/ ChangeInput
    \/ SendWhenIdle
    \/ TutorCompletions

\* handleSend called whenever a caller likes.
NextTutorRace ==
    \/ TutorMount
    \/ ChangeInput
    \/ SendAnytime
    \/ TutorCompletions


(***************************************************************************)
(* App: the view state, its handlers and the asynchronous completions      *)
(***************************************************************************)
\* Bound of the model: the getChapters and generateNotes calls in flight at a time.
MaxPending == 2

ClassLevels == {"Class 10", "Class 11"}

\* SUBJECTS_BY_CLASS, one subject of each of two classes.
SubjectsByClass(classLevel) ==
    IF classLevel = "Class 10" THEN {"Science"} ELSE {"Physics"}

\* What the user types as a topic.
TypedTopics == {<<"Light">>}

\* What getChapters resolves with for a class and subject when the service
\* answers with categories.
ChaptersFor(classLevel, subject) ==
    << [category |-> <<classLevel, subject>>, chapters |-> << <<"Chapter 1">> >>] >>

\* A generateNotes that answers with a note on one fixed topic.
NoteForFixedTopic(classLevel, subject, topic) ==
    [topic |-> <<"Sound">>, subject |-> subject, classLevel |-> classLevel,
     sections |-> << [heading |-> "Overview"] >>]

\* What generateNotes resolves with.
NoteFor(classLevel, subject, topic) ==
    [topic |-> topic, subject |-> subject, classLevel |-> classLevel,
     sections |-> << [heading |-> "Overview"] >>]

\* The notes kept in the library, and the section a bookmark points at.
BookmarkedNotes == { NoteFor("Class 11", "Physics", <<"Sound">>) }
BookmarkSections == {None, Some(0)}

GuestUser == [id |-> "guest-000001", name |-> "Guest Student", provider |-> "anonymous"]

SelectedTexts == {"selected text"}

ChaptersError == "Could not load chapters automatically. Please type your topic below."
\* The chapter guidance shown in place of the notes message.
NotesErrorIsChaptersError == ChaptersError

NotesError == "Failed to generate notes. Please try a different topic or check your connection."

\* A replacement of the view state that keeps a subject.
OnlyViewWithSubject(view) ==
    [ currentView |-> view, previousView |-> None, selectedClass |-> None,
      selectedSubject |-> Some("Science"), selectedTopic |-> None, notesData |-> None,
      availableChapters |-> None, isLoadingChapters |-> None,
      tutorInitialQuery |-> None, targetSectionIndex |-> None, error |-> None ]

\* { currentView: view }: every other field is undefined.
OnlyView(view) ==
    [ currentView |-> view, previousView |-> None, selectedClass |-> None,
      selectedSubject |-> None, selectedTopic |-> None, notesData |-> None,
      availableChapters |-> None, isLoadingChapters |-> None,
      tutorInitialQuery |-> None, targetSectionIndex |-> None, error |-> None ]

\* { currentView: view, previousView: previous }
ViewFrom(view, previous) == [OnlyView(view) EXCEPT !.previousView = Some(previous)]

\* The chapter buttons the topic-select view renders.
ChapterButtons ==
    IF viewState.isLoadingChapters = Some(TRUE) \/ viewState.availableChapters = None
       THEN {}
       ELSE LET cats == viewState.availableChapters[1]
            IN  UNION { { cats[i].chapters[k] : k \in 1..Len(cats[i].chapters) } : i \in 1..Len(cats) }

\* seq without its i-th element
RemoveAt(seq, i) == SubSeq(seq, 1, i - 1) \o SubSeq(seq, i + 1, Len(seq))

\* Every generateNotes call in flight is now older than a superseding navigation.
Supersede(gens) == [i \in 1..Len(gens) |-> [gens[i] EXCEPT !.superseded = TRUE]]

InitApp ==
    /\ viewState = OnlyView("landing")
    /\ appLoading = FALSE
    /\ appError = None
    /\ topicInput = ""
    /\ user = None
    /\ fetches = <<>>
    /\ generations = <<>>
    /\ lastSelect = None

\* A user navigation other than a subject selection: the view state becomes vs.
Navigate(vs) ==
    /\ viewState' = vs
    /\ lastSelect' = None

\* onLoginSuccess / the auth subscription: setUser(u)
SetUser ==
    /\ AppFrame
    /\ user = None
    /\ user' = Some(GuestUser)
    /\ UNCHANGED <<viewState, appLoading, appError, topicInput, fetches, generations, lastSelect>>

\* handleLogout
HandleLogout ==
    /\ AppFrame
    /\ user # None
    /\ user' = None
    /\ Navigate(OnlyView("landing"))
    /\ generations' = Supersede(generations)
    /\ UNCHANGED <<appLoading, appError, topicInput, fetches>>

\* resetHome
ResetHome ==
    /\ AppFrame
    /\ Navigate(OnlyView("landing"))
    /\ appError' = None
    /\ topicInput' = ""
    /\ generations' = Supersede(generations)
    /\ UNCHANGED <<appLoading, user, fetches>>

\* onBookmarksClick, in the user menu
OpenBookmarks ==
    /\ AppFrame
    /\ user # None
    /\ Navigate(ViewFrom("bookmarks", viewState.currentView))
    /\ generations' = Supersede(generations)
    /\ UNCHANGED <<appLoading, appError, topicInput, user, fetches>>

\* handleStartClassSelection, handleStartAITutor, handleStartSyllabus
HandleStart ==
    /\ AppFrame
    /\ viewState.currentView = "landing"
    /\ \E view \in {"class-select", "ai-tutor", "syllabus-analysis"} :
          Navigate(ViewFrom(view, "landing"))
    /\ UNCHANGED <<appLoading, appError, topicInput, user, fetches, generations>>

\* handleClassSelect(classLevel)
HandleClassSelect ==
    /\ AppFrame
    /\ viewState.currentView = "class-select"
    /\ \E classLevel \in ClassLevels :
          Navigate([viewState EXCEPT !.currentView = "subject-select",
                                     !.previousView = Some("class-select"),
                                     !.selectedClass = Some(classLevel)])
    /\ UNCHANGED <<appLoading, appError, topicInput, user, fetches, generations>>

\* "Change Class" in subject-select, "Change Subject" in topic-select
ChangeSelection ==
    /\ AppFrame
    /\ \/ /\ viewState.currentView = "subject-select"
          /\ Navigate([viewState EXCEPT !.currentView = "class-select"])
       \/ /\ viewState.currentView = "topic-select"
          /\ Navigate([viewState EXCEPT !.currentView = "subject-select"])
    /\ UNCHANGED <<appLoading, appError, topicInput, user, fetches, generations>>

\* handleSubjectSelect(subject), up to `await getChapters(currentClass, subject)`
HandleSubjectSelect ==
    /\ AppFrame
    /\ viewState.currentView = "subject-select"
    /\ viewState.selectedClass # None
    /\ Len(fetches) + Len(generations) < MaxPending
    /\ LET currentClass == viewState.selectedClass[1]
       IN  \E subject \in SubjectsByClass(currentClass) :
              /\ viewState' = [viewState EXCEPT !.currentView = "topic-select",
                                                !.previousView = Some("subject-select"),
                                                !.selectedSubject = Some(subject),
                                                !.isLoadingChapters = Some(TRUE),
                                                !.availableChapters = Some(<<>>)]
              /\ fetches' = Append([i \in 1..Len(fetches) |-> [fetches[i] EXCEPT !.latest = FALSE]],
                                   [classLevel |-> currentClass, subject |-> subject, latest |-> TRUE])
              /\ lastSelect' = Some([classLevel |-> currentClass, subject |-> subject,
                                     outcome |-> "pending"])
    /\ UNCHANGED <<appLoading, appError, topicInput, user, generations>>

\* The outcome of the fetch, as far as the last selection is concerned.
NoteOutcome(f, outcome) ==
    IF f.latest /\ lastSelect # None
       THEN Some([lastSelect[1] EXCEPT !.outcome = outcome])
       ELSE lastSelect

\* getChapters resolves: the continuation of handleSubjectSelect's try block.
ChaptersResolve(i, categories, outcome) ==
    /\ viewState' = [viewState EXCEPT !.availableChapters = Some(categories),
                                      !.isLoadingChapters = Some(FALSE)]
    /\ fetches' = RemoveAt(fetches, i)
    /\ lastSelect' = NoteOutcome(fetches[i], outcome)
    /\ UNCHANGED <<appLoading, appError, topicInput, user, generations>>

\* getChapters resolves with the chapters of the class and subject it was called for.
ChaptersArrive ==
    /\ AppFrame
    /\ \E i \in 1..Len(fetches) :
          ChaptersResolve(i, ChaptersFor(fetches[i].classLevel, fetches[i].subject), "ok")

\* getChapters resolves with [] (no text, or no categories in it).
ChaptersEmpty ==
    /\ AppFrame
    /\ \E i \in 1..Len(fetches) : ChaptersResolve(i, <<>>, "empty")

ChaptersFailKeepsLoading ==
    /\ AppFrame
    /\ \E i \in 1..Len(fetches) :
          /\ viewState' = [viewState EXCEPT !.error = Some(ChaptersError)]
          /\ fetches' = RemoveAt(fetches, i)
          /\ lastSelect' = NoteOutcome(fetches[i], "failed")
    /\ UNCHANGED <<appLoading, appError, topicInput, user, generations>>

\* getChapters rejects: the catch block of handleSubjectSelect.
ChaptersFail ==
    /\ AppFrame
    /\ \E i \in 1..Len(fetches) :
          /\ viewState' = [viewState EXCEPT !.isLoadingChapters = Some(FALSE),
                                            !.error = Some(ChaptersError)]
          /\ fetches' = RemoveAt(fetches, i)
          /\ lastSelect' = NoteOutcome(fetches[i], "failed")
    /\ UNCHANGED <<appLoading, appError, topicInput, user, generations>>

\* onChange of the topic field
SetTopicInput ==
    /\ AppFrame
    /\ viewState.currentView = "topic-select"
    /\ \E text \in {""} \cup {t[1] : t \in TypedTopics} : topicInput' = text
    /\ UNCHANGED <<viewState, appLoading, appError, user, fetches, generations, lastSelect>>

\* generateNotesForTopic(topic), up to `await generateNotes(...)`
GenerateNotesForTopic(topic) ==
    IF viewState.selectedClass = None \/ viewState.selectedSubject = None
       THEN UNCHANGED appVars
       ELSE /\ Len(fetches) + Len(generations) < MaxPending
            /\ appLoading' = TRUE
            /\ appError' = None
            /\ generations' = Append(generations,
                                     [classLevel |-> viewState.selectedClass[1],
                                      subject |-> viewState.selectedSubject[1],
                                      topic |-> topic, superseded |-> FALSE])
            /\ UNCHANGED <<viewState, topicInput, user, fetches, lastSelect>>

\* Enter or the search button with a topic typed, or a chapter button
GenerateNotesCall ==
    /\ AppFrame
    /\ viewState.currentView = "topic-select"
    /\ \/ topicInput # "" /\ GenerateNotesForTopic(<<topicInput>>)
       \/ \E chapter \in ChapterButtons : GenerateNotesForTopic(chapter)

\* generateNotes resolves: the continuation of generateNotesForTopic's try block
\* and its finally.
NotesArrive ==
    /\ AppFrame
    /\ \E i \in 1..Len(generations) :
          LET g == generations[i]
          IN  /\ viewState' = [viewState EXCEPT
                                  !.currentView = "notes",
                                  !.previousView = Some("topic-select"),
                                  !.notesData = Some(NoteFor(g.classLevel, g.subject, g.topic)),
                                  !.selectedTopic = Some(g.topic),
                                  !.targetSectionIndex = None]
              /\ generations' = RemoveAt(generations, i)
    /\ appLoading' = FALSE
    /\ UNCHANGED <<appError, topicInput, user, fetches, lastSelect>>

\* generateNotes rejects: the catch block of generateNotesForTopic and its finally.
NotesFail ==
    /\ AppFrame
    /\ \E i \in 1..Len(generations) : generations' = RemoveAt(generations, i)
    /\ appError' = Some(NotesError)
    /\ appLoading' = FALSE
    /\ UNCHANGED <<viewState, topicInput, user, fetches, lastSelect>>

\* handleOpenBookmark(note, sectionIndex), from the library
HandleOpenBookmark ==
    /\ AppFrame
    /\ viewState.currentView = "bookmarks"
    /\ user # None
    /\ \E note \in BookmarkedNotes, sectionIndex \in BookmarkSections :
          Navigate([OnlyView("notes") EXCEPT
                       !.previousView = Some("bookmarks"),
                       !.notesData = Some(note),
                       !.selectedClass = Some(note.classLevel),
                       !.selectedSubject = Some(note.subject),
                       !.selectedTopic = Some(note.topic),
                       !.targetSectionIndex = sectionIndex])
    /\ generations' = Supersede(generations)
    /\ UNCHANGED <<appLoading, appError, topicInput, user, fetches>>

\* onAskTutor(text), in the notes view
AskTutor ==
    /\ AppFrame
    /\ viewState.currentView = "notes"
    /\ viewState.notesData # None
    /\ \E text \in SelectedTexts :
          Navigate([viewState EXCEPT !.currentView = "ai-tutor",
                                     !.previousView = Some("notes"),
                                     !.tutorInitialQuery = Some(text)])
    /\ UNCHANGED <<appLoading, appError, topicInput, user, fetches, generations>>

\* onBack of the notes, ai-tutor, syllabus-analysis and bookmarks views
Back ==
    /\ AppFrame
    /\ \/ /\ viewState.currentView = "notes"
          /\ viewState.notesData # None
          /\ Navigate([viewState EXCEPT !.currentView =
                          IF viewState.previousView = Some("bookmarks")
                             THEN "bookmarks" ELSE "topic-select"])
       \/ /\ viewState.currentView = "ai-tutor"
          /\ Navigate([viewState EXCEPT !.currentView =
                          IF viewState.previousView # None
                             THEN viewState.previousView[1] ELSE "landing",
                                        !.tutorInitialQuery = None])
       \/ /\ viewState.currentView = "syllabus-analysis"
          /\ Navigate([viewState EXCEPT !.currentView = "landing"])
       \/ /\ viewState.currentView = "bookmarks"
          /\ user # None
          /\ Navigate(OnlyView("landing"))
    /\ UNCHANGED <<appLoading, appError, topicInput, user, fetches, generations>>

NextApp ==
    \/ SetUser
    \/ HandleLogout
    \/ ResetHome
    \/ OpenBookmarks
    \/ HandleStart
    \/ HandleClassSelect
    \/ ChangeSelection
    \/ HandleSubjectSelect
    \/ ChaptersArrive
    \/ ChaptersEmpty
    \/ ChaptersFail
    \/ SetTopicInput
    \/ GenerateNotesCall
    \/ NotesArrive
    \/ NotesFail
    \/ HandleOpenBookmark
    \/ AskTutor
    \/ Back


(***************************************************************************)
(* Chapter loading: handleSubjectSelect over getChapters over retryAPI     *)
(***************************************************************************)
\* handleSubjectSelect(subject) when no fetch of chapters is under way.
SelectSubject ==
    /\ rPc = "idle"
    /\ fetches = <<>>
    /\ HandleSubjectSelect

\* `await getChapters(currentClass, subject)`: retryAPI is entered for the fetch
\* the handler has just started.
StartGetChapters ==
    /\ fetches # <<>>
    /\ GetChapters

\* The promise of getChapters settles and handleSubjectSelect goes on: after
\* the await when retryAPI returned, in its catch block when retryAPI threw.
GetChaptersSettles ==
    /\ fetches # <<>>
    /\ \/ rPc = "returned" /\ rResult.value # <<>> /\ ChaptersArrive
       \/ rPc = "returned" /\ rResult.value = <<>> /\ ChaptersEmpty
       \/ rPc = "thrown" /\ ChaptersFail

\* The settled call is over: the next getChapters enters retryAPI afresh.
RetryCallEnds ==
    /\ RetryFrame
    /\ fetches = <<>>
    /\ rPc \in {"returned", "thrown"}
    /\ rPc' = "idle"
    /\ rRetries' = 0
    /\ rDelay' = 0
    /\ rMax' = 0
    /\ rInit' = 0
    /\ rCalls' = 0
    /\ rLog' = <<>>
    /\ rWaits' = <<>>
    /\ rResult' = Success(None)

NextLoading ==
    \/ HandleStart
    \/ HandleClassSelect
    \/ ChangeSelection
    \/ ResetHome
    \/ SelectSubject
    \/ StartGetChapters
    \/ ChaptersRespond
    \/ OperationRejects
    \/ TimerFires
    \/ GetChaptersSettles
    \/ RetryCallEnds


(***************************************************************************)
(* The guest session: loginUser('anonymous'), logoutUser and               *)
(* subscribeToAuthChanges.  The Supabase client is null in this build      *)
(* (isFirebaseConfigured is false), so only the local branches run.        *)
(***************************************************************************)
\* Bound of the model: the calls made in one run.
MaxAuthOps == 5

\* The instants at which Date.now() is read, scaled to fit the integers of the
\* model checker; the first and the last share their last six digits.
Clock == <<1999000123, 1999000124, 2000000123>>

\* Date.now().toString().slice(-6), for an instant of at least six digits.
LastSixDigits(t) == t % 1000000

\* The guestUser object literal of loginUser.
GuestUserAt(t) ==
    [ id |-> <<"guest-", LastSixDigits(t)>>, name |-> "Guest Student", email |-> "",
      avatar |-> "https://api.dicebear.com/7.x/avataaars/svg?seed=guest",
      provider |-> "anonymous" ]

UserKeys == <<"id", "name", "email", "avatar", "provider">>

\* JSON.stringify(user): the members in order, as key and value.
StringifyUser(u) == [i \in 1..Len(UserKeys) |-> <<UserKeys[i], u[UserKeys[i]]>>]

\* The value of the member named key in the JSON text json.
Member(json, key) == json[CHOOSE i \in 1..Len(json) : json[i][1] = key][2]

\* A JSON.parse that loses the id member.
ParseUserWithoutId(json) ==
    [ id |-> <<>>, name |-> Member(json, "name"), email |-> Member(json, "email"),
      avatar |-> Member(json, "avatar"), provider |-> Member(json, "provider") ]

\* JSON.parse(guestSession)
ParseUser(json) ==
    [ id |-> Member(json, "id"), name |-> Member(json, "name"), email |-> Member(json, "email"),
      avatar |-> Member(json, "avatar"), provider |-> Member(json, "provider") ]

InitAuth ==
    /\ lsGuest = None
    /\ authNow = 1
    /\ loginReturn = None
    /\ delivered = <<>>
    /\ authLog = <<>>

\* Time passes.
AuthTick ==
    /\ AuthFrame
    /\ authNow < Len(Clock)
    /\ authNow' = authNow + 1
    /\ UNCHANGED <<lsGuest, loginReturn, delivered, authLog>>

\* loginUser('anonymous')
LoginGuest ==
    /\ AuthFrame
    /\ Len(authLog) < MaxAuthOps
    /\ LET guestUser == GuestUserAt(Clock[authNow])
       IN  /\ lsGuest' = Some(StringifyUser(guestUser))
           /\ loginReturn' = Some(guestUser)
    /\ authLog' = Append(authLog, "login")
    /\ UNCHANGED <<authNow, delivered>>

\* logoutUser()
LogoutUser ==
    /\ AuthFrame
    /\ Len(authLog) < MaxAuthOps
    /\ lsGuest' = None
    /\ loginReturn' = None
    /\ authLog' = Append(authLog, "logout")
    /\ UNCHANGED <<authNow, delivered>>

\* A value under the guest-session key that JSON.parse rejects.
Unparsable == << <<"{">> >>

\* Whether JSON.parse accepts the text: every member is a key and a value.
Parses(json) == \A i \in 1..Len(json) : Len(json[i]) = 2

\* The body of subscribeToAuthChanges up to its return, for a given value of
\* the module's `supabase`: the callback calls it makes, and what it leaves
\* under the guest-session key. guestSession is read once, before the try.
Subscribe(supabase) ==
    LET guestSession == lsGuest
    IN  /\ IF guestSession # None
              THEN IF Parses(guestSession[1])
                      THEN /\ delivered' = << Some(ParseUser(guestSession[1])) >>
                           /\ UNCHANGED lsGuest
                      ELSE /\ delivered' = <<>>
                           /\ lsGuest' = None
              ELSE /\ delivered' = IF supabase = None THEN << None >> ELSE <<>>
                   /\ UNCHANGED lsGuest
        /\ authLog' = Append(authLog, IF supabase = None THEN "subscribe" ELSE "listen")
        /\ UNCHANGED <<authNow, loginReturn>>

\* subscribeToAuthChanges(callback), with supabase = null as this build has it
SubscribeToAuthChanges ==
    /\ AuthFrame
    /\ Len(authLog) < MaxAuthOps
    /\ Subscribe(None)

NextAuth ==
    \/ AuthTick
    \/ LoginGuest
    \/ LogoutUser
    \/ SubscribeToAuthChanges

\* Something other than this module writes the guest-session key: a text that
\* is no JSON.
ForeignWrite ==
    /\ AuthFrame
    /\ Len(authLog) < MaxAuthOps
    /\ lsGuest' = Some(Unparsable)
    /\ authLog' = Append(authLog, "foreign")
    /\ UNCHANGED <<authNow, loginReturn, delivered>>

NextAuthStorage ==
    \/ AuthTick
    \/ LoginGuest
    \/ LogoutUser
    \/ SubscribeToAuthChanges
    \/ ForeignWrite

\* The sessions the remote auth service reports: none, or a user signed in by
\* e-mail or by Google, without profile metadata.
RemoteSessions ==
    { None,
      Some([id |-> <<"sb-", 1>>, email |-> "s1@example.com", provider |-> "email"]),
      Some([id |-> <<"sb-", 2>>, email |-> "s2@example.com", provider |-> "google"]) }

\* mapUser(session.user, provider), provider being 'email' or else 'google'
MapUser(sbUser) ==
    [ id |-> sbUser.id, name |-> "Student", email |-> sbUser.email,
      avatar |-> "https://api.dicebear.com/7.x/avataaars/svg?seed=<id>",
      provider |-> IF sbUser.provider = "email" THEN "email" ELSE "google" ]

GuestSessionIgnored == FALSE

\* localStorage.getItem(STORAGE_KEY_GUEST), as the listener tests it
GuestSessionActive == lsGuest # None

\* subscribeToAuthChanges(callback) with a configured supabase client, called
\* once by the effect of App: the guest check, then the listener is registered.
SubscribeConfigured ==
    /\ AuthFrame
    /\ Len(authLog) < MaxAuthOps
    /\ \A i \in 1..Len(authLog) : authLog[i] # "listen"
    /\ Subscribe(Some("client"))

\* The remote service reports an auth-state change to the registered listener.
RemoteAuthChange ==
    /\ AuthFrame
    /\ Len(authLog) < MaxAuthOps
    /\ \E i \in 1..Len(authLog) : authLog[i] = "listen"
    /\ \E session \in RemoteSessions :
          delivered' = IF GuestSessionActive
                          THEN delivered
                          ELSE IF session # None
                                  THEN Append(delivered, Some(MapUser(session[1])))
                                  ELSE Append(delivered, None)
    /\ authLog' = Append(authLog, "remote")
    /\ UNCHANGED <<lsGuest, authNow, loginReturn>>

NextAuthRemote ==
    \/ AuthTick
    \/ LoginGuest
    \/ LogoutUser
    \/ SubscribeConfigured
    \/ RemoteAuthChange


(***************************************************************************)
(* replaceSuperscripts                                                     *)
(***************************************************************************)
\* Bound of the model: the length of the text.
MaxTextLen == 3

\* The characters of the texts: the caret, two digits, a sign, a letter and a
\* character that is already a Unicode superscript.
TextChars == {"^", "1", "2", "-", "x", "sup2"}

\* The character class [0-9+\-] of the pattern.
ExponentChars == {"0", "1", "2", "3", "4", "5", "6", "7", "8", "9", "+", "-"}

\* A map that has no entry for the signs.
SuperscriptOfDigit(c) ==
    IF c \in {"0", "1", "2", "3", "4", "5", "6", "7", "8", "9"} THEN "sup" \o c ELSE c

\* map[c] || c
SuperscriptOf(c) == IF c \in ExponentChars THEN "sup" \o c ELSE c

\* The end of the longest run of exponent characters that starts at i.
RECURSIVE RunEnd(_, _)
RunEnd(text, i) ==
    IF i < Len(text) /\ text[i + 1] \in ExponentChars THEN RunEnd(text, i + 1) ELSE i

\* text.replace(/\^([0-9+\-]+)/g, ...), scanning from position i: a caret
\* followed by an exponent character starts a match, which takes the longest
\* run; the scan resumes after the match.
RECURSIVE ReplaceFrom(_, _)
ReplaceFrom(text, i) ==
    IF i > Len(text) THEN <<>>
    ELSE IF text[i] = "^" /\ i < Len(text) /\ text[i + 1] \in ExponentChars
            THEN LET last == RunEnd(text, i + 1)
                 IN  [k \in 1..(last - i) |-> SuperscriptOf(text[i + k])]
                        \o ReplaceFrom(text, last + 1)
            ELSE <<text[i]>> \o ReplaceFrom(text, i + 1)

ReplaceSuperscripts(text) == ReplaceFrom(text, 1)

\* Every text of at most MaxTextLen characters.
Texts16 == UNION { [1..n -> TextChars] : n \in 0..MaxTextLen }

InitRewrite ==
    /\ rsText = <<>>
    /\ rsOnce = None
    /\ rsTwice = None

\* A caller has a text.
ChooseText ==
    /\ RewriteFrame
    /\ rsOnce = None
    /\ rsText = <<>>
    /\ \E text \in Texts16 : rsText' = text
    /\ UNCHANGED <<rsOnce, rsTwice>>

\* replaceSuperscripts(text)
RewriteOnce ==
    /\ RewriteFrame
    /\ rsOnce = None
    /\ rsOnce' = Some(ReplaceSuperscripts(rsText))
    /\ UNCHANGED <<rsText, rsTwice>>

\* replaceSuperscripts applied to its own result
RewriteTwice ==
    /\ RewriteFrame
    /\ rsOnce # None
    /\ rsTwice = None
    /\ rsTwice' = Some(ReplaceSuperscripts(rsOnce[1]))
    /\ UNCHANGED <<rsText, rsOnce>>

NextRewrite ==
    \/ ChooseText
    \/ RewriteOnce
    \/ RewriteTwice

Init == InitRetry /\ InitBookmarks /\ InitTutor /\ InitApp /\ InitAuth /\ InitRewrite

SpecRetry == Init /\ [][NextRetry]_vars

SpecBookmarks == Init /\ [][NextBookmarks]_vars

SpecTutor == Init /\ [][NextTutor]_vars

SpecTutorRace == Init /\ [][NextTutorRace]_vars

SpecApp == Init /\ [][NextApp]_vars

SpecAuth == Init /\ [][NextAuth]_vars

SpecChapters == Init /\ [][NextChapters]_vars

SpecRewrite == Init /\ [][NextRewrite]_vars

SpecSyllabus == Init /\ [][NextSyllabus]_vars

SpecAuthStorage == Init /\ [][NextAuthStorage]_vars

SpecAuthRemote == Init /\ [][NextAuthRemote]_vars

\* Every remote request returns, every timer fires, and the steps of the
\* program that need no user (entering retryAPI, the continuation of the
\* await) are taken; nothing is assumed of the user.
SpecLoading ==
    /\ Init
    /\ [][NextLoading]_vars
    /\ WF_vars(StartGetChapters)
    /\ WF_vars(ChaptersRespond \/ OperationRejects)
    /\ WF_vars(TimerFires)
    /\ WF_vars(GetChaptersSettles)

(***************************************************************************)
(* Claims about retryAPI (checked under SpecRetry)                         *)
(***************************************************************************)
RECURSIVE Pow2(_)
Pow2(n) == IF n = 0 THEN 1 ELSE 2 * Pow2(n - 1)

\* The transient signature as the specification words it: status 429 or 503,
\* or a message with a quota / resource-exhaustion marker.
QuotaSignature(e) ==
    \/ e.status = Some(429)
    \/ e.status = Some(503)
    \/ MessageIncludes(e, "RESOURCE_EXHAUSTED")
    \/ MessageIncludes(e, "quota")

\* The same, with the message marker "429" counted as well.
RateLimitSignature(e) == QuotaSignature(e) \/ MessageIncludes(e, "429")

\* Every invocation settled so far failed with a transient rate-limit failure.
AllTransientFailures ==
    \A i \in 1..Len(rLog) : ~rLog[i].ok /\ RateLimitSignature(rLog[i].err)

\* C1: when every attempt fails with a transient rate-limit failure and
\* maxRetries = N, the operation is invoked exactly N+1 times, the wait before
\* the k-th retry is initialDelay * 2^(k-1), and the last failure is what the
\* caller gets; with the defaults that is 4 invocations and waits of 2000, 4000
\* and 8000 ms.
C1_RetriesExhausted ==
    AllTransientFailures =>
        /\ \A k \in 1..Len(rWaits) : rWaits[k] = rInit * Pow2(k - 1)
        /\ rPc = "thrown" =>
            /\ rCalls = rMax + 1
            /\ Len(rLog) = rMax + 1
            /\ Len(rWaits) = rMax
            /\ rResult = rLog[Len(rLog)]
        /\ (rPc = "thrown" /\ rMax = DefaultRetries /\ rInit = DefaultDelay) =>
            /\ rCalls = 4
            /\ rWaits = <<2000, 4000, 8000>>

C1_Witness ==
    /\ rPc = "thrown"
    /\ AllTransientFailures
    /\ rMax = DefaultRetries
    /\ rInit = DefaultDelay
    /\ rCalls = 4
    /\ Len(rWaits) = 3

\* What C2 promises once the first invocation has failed with `e`.
PropagatedAtOnce ==
    /\ rPc = "thrown"
    /\ rCalls = 1
    /\ rWaits = <<>>
    /\ rResult = rLog[1]

\* C2 as claimed: a failure whose status is neither 429 nor 503 and whose
\* message has no quota / resource-exhaustion marker is never retried: one
\* invocation, no wait, the same failure propagated, whatever maxRetries is.
C2_Original ==
    (rLog # <<>> /\ ~rLog[1].ok /\ ~QuotaSignature(rLog[1].err)) => PropagatedAtOnce

\* C2, amended: a failure whose status is neither 429 nor 503 and whose message
\* contains none of "429", "RESOURCE_EXHAUSTED", "quota" is never retried: one
\* invocation, no wait, the same failure propagated, whatever maxRetries is.
C2_NonTransientPropagates ==
    (rLog # <<>> /\ ~rLog[1].ok /\ ~RateLimitSignature(rLog[1].err)) => PropagatedAtOnce

C2_Witness ==
    /\ rPc = "thrown"
    /\ rMax = MaxRetries
    /\ Len(rLog) = 1
    /\ rLog[1].err = Err(Some(500), Some(<<"Internal", "error">>))
    /\ rResult = rLog[1]

\* C3: if the operation fails transiently on its first j attempts, j <=
\* maxRetries, and succeeds on attempt j+1, retryAPI returns that success value
\* after exactly j+1 invocations and never invokes the operation again: attempt
\* j+1 is always made, its value is the result, and nothing follows a success.
C3_SuccessAfterTransient ==
    /\ (rPc # "idle" /\ AllTransientFailures /\ Len(rLog) <= rMax) =>
          \/ rPc = "call" /\ rCalls = Len(rLog) + 1
          \/ rPc = "wait" /\ rCalls = Len(rLog)
    /\ \A i \in 1..Len(rLog) : rLog[i].ok =>
          /\ i = Len(rLog)
          /\ rPc = "returned"
          /\ rResult = rLog[i]
          /\ rCalls = i
          /\ i - 1 <= rMax
          /\ \A k \in 1..(i - 1) : ~rLog[k].ok /\ RateLimitSignature(rLog[k].err)
    /\ rPc = "returned" => (rLog # <<>> /\ rLog[Len(rLog)].ok)

C3_Witness ==
    /\ rPc = "returned"
    /\ Len(rLog) = 3
    /\ rCalls = 3
    /\ rResult = Success("v2")

\* The i-th invocation failed and retryAPI went on to wait and invoke the
\* operation again: every retried failure leaves one wait.
Retried(i) == ~rLog[i].ok /\ i <= Len(rWaits)

\* The retries left when the i-th invocation was made.
RetriesLeftAt(i) == rMax - (i - 1)

\* The failures of generateNotes that are no transient failures: the empty
\* response and the SyntaxError of a malformed one.
EmptyResponseFailure == [status |-> None, message |-> Some(<<"Empty", "response", "from", "AI">>)]
MalformedResponseFailure == [status |-> None, message |-> Some(<<"Unexpected", "token">>)]

Triple(b) == <<b.type, b.noteData.topic, b.sectionIndex>>

\* C6: after any sequence of addBookmark / removeBookmark calls no user's
\* stored list holds two bookmarks with the same (type, noteData.topic,
\* sectionIndex) triple; adding the same bookmark twice leaves one entry.
C6_NoDuplicateTriples ==
    \A u \in UserIds :
        LET list == GetBookmarks(u)
        IN  \A i, j \in 1..Len(list) : Triple(list[i]) = Triple(list[j]) => i = j

\* The last addBookmark call was for a combination stored earlier: the stored
\* entry is older than the bookmark the call built, and it is the only one.
C6_Witness ==
    /\ bmReturn # None
    /\ LET b == bmReturn[1]
           list == GetBookmarks(b.userId)
       IN  /\ b.type = "topic"
           /\ b.noteData.topic = "Photosynthesis"
           /\ b.sectionIndex = None
           /\ Len(list) = 1
           /\ Triple(list[1]) = Triple(b)
           /\ list[1].timestamp < b.timestamp

(***************************************************************************)
(* Claims about the tutor (checked under SpecTutor and SpecTutorRace)      *)
(***************************************************************************)
\* The concatenation of fragments, in order.
RECURSIVE ConcatAll(_)
ConcatAll(fragments) ==
    IF fragments = <<>> THEN <<>> ELSE Head(fragments) \o ConcatAll(Tail(fragments))

\* Empty or whitespace-only.
IsBlank(text) == \A i \in 1..Len(text) : text[i] \in Whitespace

\* Where the messages of the turn after t start (the end of the transcript
\* for the last turn): the messages of turn t lie before it.
NextStart(t) == IF t < Len(turns) THEN turns[t + 1].user ELSE Len(messages) + 1

\* C7: a successful streamed turn with non-blank text appends exactly one User
\* message with that text, followed by exactly one Model message; while the
\* stream runs the Model message holds the concatenation of the fragments
\* received so far, in arrival order (so it only grows), and when the stream
\* has ended it holds the concatenation of all of them.
C7_StreamedTurn ==
    \A t \in 1..Len(turns) :
        LET T == turns[t]
        IN  /\ ~IsBlank(T.text)
            /\ messages[T.user] = Message("user", T.text)
            /\ T.pc = "streaming" =>
                  /\ T.placeholder = T.user + 1
                  /\ NextStart(t) = T.user + 2
                  /\ messages[T.placeholder] = Message("model", ConcatAll(T.fragments))
            /\ (T.pc = "done" /\ ~T.failed) =>
                  /\ T.stream = <<>>
                  /\ T.placeholder = T.user + 1
                  /\ NextStart(t) = T.user + 2
                  /\ messages[T.placeholder] = Message("model", ConcatAll(T.fragments))

C7_Witness ==
    /\ Len(turns) = 2
    /\ turns[2].pc = "done"
    /\ ~turns[2].failed
    /\ turns[2].fragments = << <<"x">>, <<>>, <<"y">> >>
    /\ messages[Len(messages)] = Message("model", <<"x", "y">>)
    /\ messages[Len(messages) - 1] = Message("user", turns[2].text)

\* C8 as claimed: a failing turn, failing when it is issued or after fragments
\* were received, contributes exactly one User message and one Model message,
\* whose text is the apology; no partial answer stays in the transcript.
C8_Original ==
    \A t \in 1..Len(turns) :
        LET T == turns[t]
        IN  (T.pc = "done" /\ T.failed) =>
                /\ messages[T.user] = Message("user", T.text)
                /\ messages[T.user + 1] = Message("model", Apology)
                /\ NextStart(t) = T.user + 2

\* C9: a handleSend call with empty or whitespace-only text changes nothing:
\* not the transcript, not the loading flag, not the input, and no request is
\* issued to the chat session.
C9_BlankSendIsNoOp ==
    [][ (lastSend'.flip # lastSend.flip /\ IsBlank(lastSend'.text)) =>
            UNCHANGED <<messages, input, loading, chatSession, requests, turns>> ]_vars

\* A whitespace-only send was made on the mounted tutor and left the
\* transcript at its greeting.
C9_Witness ==
    /\ lastSend = [flip |-> TRUE, text |-> <<" ">>]
    /\ chatSession
    /\ input = <<" ">>
    /\ messages = << Message("model", Greeting) >>
    /\ requests = <<>>

\* C10 as claimed: in every interleaving of handleSend calls and fragment
\* arrivals no User message is changed or removed, and the fragments of a turn
\* are written into the Model placeholder of that turn and nowhere else: each
\* placeholder holds the concatenation of its own turn's fragments.
C10_Original ==
    \A t \in 1..Len(turns) :
        LET T == turns[t]
        IN  /\ T.user <= Len(messages)
            /\ messages[T.user] = Message("user", T.text)
            /\ T.placeholder # 0 =>
                  /\ T.placeholder <= Len(messages)
                  /\ messages[T.placeholder] = Message("model", ConcatAll(T.fragments))

(***************************************************************************)
(* Claims about the view state and its asynchronous completions            *)
(***************************************************************************)
\* C4 (as stated): while selecting a subject is the user's last navigation, the
\* chapter-loading flag stays set as long as that selection's fetch is in
\* flight, and once every fetch has completed the chapters shown are the ones
\* fetched for that selection, whatever earlier, superseded fetches returned.
C4_Original ==
    lastSelect # None =>
        LET sel == lastSelect[1]
        IN  /\ sel.outcome = "pending" => viewState.isLoadingChapters = Some(TRUE)
            /\ (sel.outcome = "ok" /\ fetches = <<>>) =>
                   viewState.availableChapters = Some(ChaptersFor(sel.classLevel, sel.subject))
            /\ (sel.outcome = "empty" /\ fetches = <<>>) =>
                   viewState.availableChapters = Some(<<>>)

\* C5 (as stated): the completion of a generateNotes call that was made before
\* a later home, library, bookmark or logout navigation changes neither
\* currentView nor notesData nor selectedTopic.
C5_Original ==
    [][\A i \in 1..Len(generations) :
          (generations[i].superseded /\ generations' = RemoveAt(generations, i)) =>
              /\ viewState'.currentView = viewState.currentView
              /\ viewState'.notesData = viewState.notesData
              /\ viewState'.selectedTopic = viewState.selectedTopic]_vars

\* C11: when a generateNotes call made for the selected class c and subject s
\* with topic t resolves while the user is still on the topic-select view they
\* reached by selecting s, the state becomes currentView = notes with
\* selectedClass = c, selectedSubject = s, selectedTopic = t, notesData = the
\* note generated for (c, s, t) and previousView = topic-select, whatever the
\* chapter fetch did; and back from notes with previousView = topic-select
\* returns to topic-select.
C11_JourneyToNotes ==
    [][/\ \A i \in 1..Len(generations) :
             LET g == generations[i]
             IN  ( /\ NotesArrive
                   /\ generations' = RemoveAt(generations, i)
                   /\ viewState.currentView = "topic-select"
                   /\ lastSelect # None
                   /\ lastSelect[1].classLevel = g.classLevel
                   /\ lastSelect[1].subject = g.subject )
                 => /\ viewState'.currentView = "notes"
                    /\ viewState'.previousView = Some("topic-select")
                    /\ viewState'.selectedClass = Some(lastSelect[1].classLevel)
                    /\ viewState'.selectedSubject = Some(lastSelect[1].subject)
                    /\ viewState'.selectedTopic = Some(g.topic)
                    /\ viewState'.notesData # None
                    /\ viewState'.notesData[1].topic = g.topic
                    /\ viewState'.notesData[1].subject = g.subject
                    /\ viewState'.notesData[1].classLevel = g.classLevel
       /\ ( /\ Back
            /\ viewState.currentView = "notes"
            /\ viewState.previousView = Some("topic-select") )
          => viewState'.currentView = "topic-select"]_vars

\* The notes arrived while the chapter fetch of the selection was still in flight.
C11_Witness ==
    /\ viewState.currentView = "notes"
    /\ lastSelect # None
    /\ lastSelect[1].outcome = "pending"
    /\ viewState.selectedClass = Some(lastSelect[1].classLevel)
    /\ viewState.selectedSubject = Some(lastSelect[1].subject)
    /\ viewState.selectedTopic = Some(<<"Light">>)
    /\ viewState.notesData # None
    /\ viewState.notesData[1].topic = <<"Light">>
    /\ viewState.previousView = Some("topic-select")

\* The note on screen is one kept in the library: with the topics the model
\* lets the user ask for, no generated note equals a note of the library.
OpenedFromBookmark ==
    /\ viewState.notesData # None
    /\ viewState.notesData[1] \in BookmarkedNotes

\* C12 (as stated): back from the notes view, when the note shown was opened
\* from the library, goes to the bookmarks view, whatever happened since the
\* bookmark was opened.
C12_Original ==
    [][( /\ Back
         /\ viewState.currentView = "notes"
         /\ OpenedFromBookmark )
       => viewState'.currentView = "bookmarks"]_vars

GenericNotesMessage ==
    "Failed to generate notes. Please try a different topic or check your connection."

\* C13: the completion of a generateNotes call clears the loading flag and is
\* all or nothing: either it enters the notes view with the note and topic of
\* the call (and no target section), or it leaves the whole view state as it
\* was and sets the generic error message; and a step from topic-select to
\* notes is always the successful completion of a generateNotes call.
C13_AllOrNothing ==
    [][/\ \A i \in 1..Len(generations) :
             LET g == generations[i]
             IN  generations' = RemoveAt(generations, i) =>
                    /\ appLoading' = FALSE
                    /\ \/ /\ viewState'.currentView = "notes"
                          /\ viewState'.previousView = Some("topic-select")
                          /\ viewState'.notesData # None
                          /\ viewState'.notesData[1].topic = g.topic
                          /\ viewState'.selectedTopic = Some(g.topic)
                          /\ viewState'.targetSectionIndex = None
                          /\ appError' = appError
                       \/ /\ viewState' = viewState
                          /\ appError' = Some(GenericNotesMessage)
       /\ (viewState.currentView = "topic-select" /\ viewState'.currentView = "notes")
          => \E i \in 1..Len(generations) :
                /\ generations' = RemoveAt(generations, i)
                /\ viewState'.notesData # None
                /\ viewState'.notesData[1].topic = generations[i].topic]_vars

\* A generation failed on the topic-select view: no note, the message set, not loading.
C13_Witness ==
    /\ viewState.currentView = "topic-select"
    /\ viewState.notesData = None
    /\ viewState.selectedTopic = None
    /\ appError = Some(GenericNotesMessage)
    /\ appLoading = FALSE
    /\ generations = <<>>

\* C20 (as stated): notesData is set only while currentView is notes.
C20_Original ==
    viewState.notesData # None => viewState.currentView = "notes"

(***************************************************************************)
(* Claims about the guest session                                          *)
(***************************************************************************)
\* The last call of the log that is not a subscribe: "login", "logout" or "none".
LastSessionChange ==
    LET changes == {i \in 1..Len(authLog) : authLog[i] # "subscribe"}
    IN  IF changes = {} THEN "none"
        ELSE authLog[CHOOSE i \in changes : \A j \in changes : j <= i]

\* C14: right after a subscribeToAuthChanges call, the callback has been called
\* exactly once: with the User the last guest login returned if no logout
\* followed that login, and with null if the last session change was a logout;
\* and after a logout nothing is stored under the guest-session key.
C14_GuestSession ==
    /\ (Len(authLog) > 0 /\ authLog[Len(authLog)] = "subscribe") =>
          /\ LastSessionChange = "login" =>
                (loginReturn # None /\ delivered = << loginReturn >>)
          /\ LastSessionChange = "logout" => delivered = << None >>
    /\ LastSessionChange = "logout" => lsGuest = None

\* Login, subscribe (the guest is delivered), logout, subscribe (null is delivered).
C14_Witness ==
    /\ authLog = <<"login", "subscribe", "logout", "subscribe">>
    /\ delivered = << None >>
    /\ lsGuest = None

(***************************************************************************)
(* Claims about getChapters                                                *)
(***************************************************************************)
\* C15 (as stated): the promise getChapters returns never rejects, and when
\* the request fails, or the answer has no content, it resolves with the
\* empty sequence.
C15_Original ==
    /\ rPc # "thrown"
    /\ \A response \in ChapterResponses :
          ~response.text => ChaptersOperation(response).value = <<>>

(***************************************************************************)
(* Claims about replaceSuperscripts                                        *)
(***************************************************************************)
IsExponentChar(c) == c \in {"0", "1", "2", "3", "4", "5", "6", "7", "8", "9", "+", "-"}

\* The caret at position i is followed by an exponent character.
StartsExponent(text, i) ==
    text[i] = "^" /\ i < Len(text) /\ IsExponentChar(text[i + 1])

\* Position i is in a run of exponent characters that follows a caret.
InExponent(text, i) ==
    /\ IsExponentChar(text[i])
    /\ \E j \in 1..(i - 1) :
          text[j] = "^" /\ \A k \in (j + 1)..i : IsExponentChar(text[k])

\* What the rewrite makes of position i: nothing, the superscript, or the character.
RewrittenAt(text, i) ==
    IF StartsExponent(text, i) THEN <<>>
    ELSE IF InExponent(text, i) THEN << "sup" \o text[i] >>
    ELSE << text[i] >>

RECURSIVE RewrittenUpTo(_, _)
RewrittenUpTo(text, n) ==
    IF n = 0 THEN <<>> ELSE RewrittenUpTo(text, n - 1) \o RewrittenAt(text, n)

Marking(list, type, topic, sectionIndex) ==
    {i \in 1..Len(list) : Triple(list[i]) = <<type, topic, sectionIndex>>}

\* C17: an addBookmark or removeBookmark call for one user leaves the list
\* getBookmarks returns for every other user as it was (only a step that
\* writes to storage can change a list), and after an addBookmark call that
\* returned a bookmark, the list of the user it names holds exactly one entry
\* for what was marked, whatever the other users' lists hold.
C17_PerUserIsolation ==
    [][/\ lsBookmarks' # lsBookmarks =>
             \A u \in UserIds :
                ( \/ \E n \in Notes, t \in BookmarkTypes, x \in SectionIndexes :
                        AddBookmark(u, n, t, x)
                  \/ \E id \in 0..(MaxTime + 1) : RemoveBookmark(u, BookmarkId(id)) )
                => \A other \in UserIds \ {u} : GetBookmarks(other)' = GetBookmarks(other)
       /\ bmReturn' # None =>
             LET b == bmReturn'[1]
             IN  AddBookmark(b.userId, b.noteData, b.type, b.sectionIndex)
                 => Cardinality(Marking(ListOf(ParseStored(lsBookmarks'), b.userId),
                                        b.type, b.noteData.topic, b.sectionIndex)) = 1]_vars

\* Two users each hold their own entry for the same topic.
C17_Witness ==
    \E u1 \in UserIds, u2 \in UserIds :
        /\ u1 # u2
        /\ Len(GetBookmarks(u1)) = 1
        /\ Len(GetBookmarks(u2)) = 1
        /\ Triple(GetBookmarks(u1)[1]) = Triple(GetBookmarks(u2)[1])
        /\ GetBookmarks(u1)[1].userId = u1
        /\ GetBookmarks(u2)[1].userId = u2

\* The entries of list whose id is not id, in their order.
Without(list, id) == SelectSeq(list, LAMBDA b : b.id # id)

C19_Original ==
    [][\A u \in UserIds, n \in Notes, t \in BookmarkTypes, x \in SectionIndexes :
          ( /\ AddBookmark(u, n, t, x)
            /\ bmReturn' # None
            /\ Marking(GetBookmarks(u), t, n.topic, x) # {} )
          => /\ lsBookmarks' = lsBookmarks
             /\ \E i \in Marking(GetBookmarks(u), t, n.topic, x) :
                   bmReturn'[1].id = GetBookmarks(u)[i].id]_vars

(***************************************************************************)
(* More claims about the view state                                        *)
(***************************************************************************)
\* C21 (as stated): after every step that changes currentView, previousView
\* is the view that was current before the step.
C21_Original ==
    [][viewState'.currentView # viewState.currentView
       => viewState'.previousView = Some(viewState.currentView)]_vars

\* C22: in every reachable state, selectedSubject set implies selectedClass set.
C22_SubjectImpliesClass ==
    viewState.selectedSubject # None => viewState.selectedClass # None

\* A subject is selected again after the class was changed, with a generation
\* of the abandoned selection still in flight.
C22_Witness ==
    /\ viewState.currentView = "topic-select"
    /\ viewState.selectedClass = Some("Class 11")
    /\ viewState.selectedSubject = Some("Physics")
    /\ \E i \in 1..Len(generations) : generations[i].classLevel = "Class 10"

\* C23 (as stated): handleClassSelect(level) goes from class-select to
\* subject-select with selectedClass = level and with selectedSubject,
\* selectedTopic and notesData cleared.
C23_Original ==
    [][HandleClassSelect
       => /\ viewState.currentView = "class-select"
          /\ viewState'.currentView = "subject-select"
          /\ viewState'.selectedClass # None
          /\ viewState'.selectedClass[1] \in ClassLevels
          /\ viewState'.selectedSubject = None
          /\ viewState'.selectedTopic = None
          /\ viewState'.notesData = None]_vars

ManualEntryGuidance == "Could not load chapters automatically. Please type your topic below."

\* C27 (as stated): when the chapter fetch of the selection on screen fails,
\* currentView stays topic-select, availableChapters is empty and the message
\* the topic-select view displays is the manual-topic-entry guidance.
C27_Original ==
    [][( /\ ChaptersFail
         /\ viewState.currentView = "topic-select"
         /\ lastSelect # None
         /\ lastSelect[1].outcome = "pending"
         /\ lastSelect'[1].outcome = "failed" )
       => /\ viewState'.currentView = "topic-select"
          /\ viewState'.availableChapters = Some(<<>>)
          /\ appError' = Some(ManualEntryGuidance)]_vars

(***************************************************************************)
(* Claims about analyzeSyllabus (checked under SpecSyllabus)               *)
(***************************************************************************)
\* The failure kind the user is shown when the service is rate-limited.
HighTrafficFailure ==
    [status |-> None,
     message |-> Some(<<"High", "traffic.", "We", "are", "automatically", "retrying">>)]

\* C24 as claimed: when the retries of analyzeSyllabus are exhausted by a
\* failure with a rate-limit signature (status 429, status 503, or a
\* RESOURCE_EXHAUSTED / quota message) it rejects with the HighTraffic failure,
\* not the raw one; a failure of any other kind, the empty-analysis failure
\* included, is what it rejects with, unchanged.
C24_Original ==
    rPc = "thrown" =>
        LET raw == rLog[Len(rLog)].err
        IN  /\ (rRetries = 0 /\ QuotaSignature(raw)) => rResult.err = HighTrafficFailure
            /\ ~RateLimitSignature(raw) => rResult.err = raw

(***************************************************************************)
(* Claims about the auth subscription                                      *)
(***************************************************************************)
\* C25: while a value is stored under the guest-session key, no remote
\* auth-state change, sign-in or sign-out, reaches the callback; once the key
\* has been removed, every remote change is delivered: the callback is called
\* once more, with null or with the user of the session.
C25_GuestSuppressesRemote ==
    [][RemoteAuthChange =>
          IF lsGuest # None
             THEN delivered' = delivered
             ELSE /\ Len(delivered') = Len(delivered) + 1
                  /\ SubSeq(delivered', 1, Len(delivered)) = delivered
                  /\ \/ delivered'[Len(delivered')] = None
                     \/ /\ delivered'[Len(delivered')] # None
                        /\ delivered'[Len(delivered')][1].provider \in {"email", "google"}]_vars

\* The listener is registered, a guest logs in, a remote change is swallowed,
\* the guest logs out, and the next remote change reaches the callback.
C25_Witness ==
    /\ authLog = <<"listen", "login", "remote", "logout", "remote">>
    /\ lsGuest = None
    /\ Len(delivered) = 1

\* C30 (as stated): with no remote auth service configured,
\* subscribeToAuthChanges calls the callback exactly once before it returns:
\* with null when nothing is stored under the guest-session key, with the
\* stored user when the value is a guest record, and with null, the key being
\* removed, when the value does not parse.
C30_Original ==
    [][SubscribeToAuthChanges =>
          /\ Len(delivered') = 1
          /\ lsGuest = None => delivered' = << None >>
          /\ (lsGuest # None /\ lsGuest[1] # Unparsable) =>
                /\ delivered'[1] # None
                /\ loginReturn # None => delivered' = << loginReturn >>
          /\ (lsGuest # None /\ lsGuest[1] = Unparsable) =>
                /\ lsGuest' = None
                /\ delivered' = << None >>]_vars

(***************************************************************************)
(* Claims about bookmark ids (checked under SpecBookmarks)                 *)
(***************************************************************************)
\* C29 (as stated): no two bookmarks stored for the same user share an id, and
\* removeBookmark with a stored id takes exactly one entry out of that user's
\* list.
C29_Original ==
    \A u \in UserIds :
        LET list == ListOf(ParseStored(lsBookmarks), u)
        IN  /\ \A i, j \in 1..Len(list) : i # j => list[i].id # list[j].id
            /\ \A i \in 1..Len(list) :
                  Len(ListOf(ParseStored(StorageAfterRemove(u, list[i].id)), u)) = Len(list) - 1

(***************************************************************************)
(* Claims about chapter loading (checked under SpecLoading)                *)
(***************************************************************************)
\* C28: chapter loading always ends: whenever isLoadingChapters is true, a
\* state follows in which it is false, whether the fetch succeeds, fails with
\* a failure that is not retried, or uses up its retries, provided every
\* remote request returns and every timer fires.
C28_LoadingEnds ==
    (viewState.isLoadingChapters = Some(TRUE)) ~> (viewState.isLoadingChapters = Some(FALSE))

\* The fetch used up its three retries and the flag is cleared.
C28_Witness ==
    /\ rPc = "thrown"
    /\ rCalls = 4
    /\ Len(rWaits) = 3
    /\ fetches = <<>>
    /\ viewState.currentView = "topic-select"
    /\ viewState.isLoadingChapters = Some(FALSE)

====
